---- MODULE Spec2Model ----
(***************************************************************************)
(* Model of squirrel-rs src/release_entry.rs: the ReleaseEntry value, its  *)
(* line parser (ReleaseEntry::parse), its formatter (to_release_entry),    *)
(* the RELEASES document codec (parse_entries / to_releases_file) and the  *)
(* file constructor (from_file).                                           *)
(*                                                                         *)
(* Text is modelled as what it is: a sequence of bytes (ASCII codes), so   *)
(* splitting, comment stripping, percent coding and hex coding are         *)
(* computed, not assumed.  A u64 is modelled by its canonical decimal      *)
(* digits, because the model checker's integers are 32 bits wide.          *)
(***************************************************************************)
EXTENDS Integers, Sequences, FiniteSets, TLC

\* ------------------------------------------------------------------------
\* Bounds of the model
\* ------------------------------------------------------------------------

\* longest exhaustively enumerated name token
MaxNameLen == 3

\* most lines in an enumerated document
MaxLines == 2

\* most bytes a file on disk holds
MaxFileLen == 2

\* most changes other processes make to the file during one from_file
MaxEnvSteps == 2

\* ------------------------------------------------------------------------
\* Program constants
\* ------------------------------------------------------------------------

\* [u8; 32]
DigestLen == 32

\* let mut content: [u8; 65536]
ChunkSize == 65536

HEADER == <<35,32,83,72,65,50,53,54,32,111,102,32,116,104,101,32,102,105,108,101,32,32,32,32,32,32,32,32,32,32,32,32,32,32,32,32,32,32,32,32,32,32,32,32,32,32,32,32,32,32,32,32,32,32,32,32,32,32,32,32,32,32,32,32,32,78,97,109,101,32,32,32,32,32,32,32,86,101,114,115,105,111,110,32,83,105,122,101,32,32,91,100,101,108,116,97,47,102,117,108,108,93,32,114,101,108,101,97,115,101,37>>

\* "https:", the literal of the SCHEME regex ^https:
SchemeLiteral == <<104,116,116,112,115,58>>

\* "file:///"
FilePrefix == <<102,105,108,101,58,47,47,47>>

\* "full" and "delta"
FULL == <<102,117,108,108>>

DELTA == <<100,101,108,116,97>>

\* byte codes used below
NL == 10

SP == 32

HASH == 35

PCT == 37

PLUS == 43

MINUS == 45

DOT == 46

SLASH == 47

QMARK == 63

BSLASH == 92

\* ------------------------------------------------------------------------
\* Results: Ok(v) / Err(e).  An error of this crate is its message; an
\* error of a library is the library's error type.
\* ------------------------------------------------------------------------

Ok(v) == [ok |-> TRUE, val |-> v]

Err(e) == [ok |-> FALSE, err |-> e]

ErrEntry == "Invalid Release Entry string"

ErrType == "Package type must be either 'delta' or 'full'"

ErrSha == "SHA256 is malformed"

ErrPercent == "Percentage must be between 0 and 100 inclusive"

ErrFromHex == "FromHexError"

ErrUrl == "url::ParseError"

ErrUtf8 == "Utf8Error"

ErrSemVer == "semver::ParseError"

ErrParseInt == "ParseIntError"

ErrIo == "io::Error"

\* ------------------------------------------------------------------------
\* str helpers
\* ------------------------------------------------------------------------

Min(a, b) == IF a < b THEN a ELSE b

StartsWith(s, p) == Len(s) >= Len(p) /\ SubSeq(s, 1, Len(p)) = p

IsDigit(c) == c >= 48 /\ c <= 57

\* char::is_whitespace on the ASCII range
IsWhitespace(c) == c \in {9, 10, 11, 12, 13, 32}

\* str::trim_right_matches(c): drops every trailing c
RECURSIVE TrimRightMatches(_, _)
TrimRightMatches(s, c) ==
  IF s # <<>> /\ s[Len(s)] = c THEN TrimRightMatches(SubSeq(s, 1, Len(s) - 1), c) ELSE s

\* str::trim_left_matches(c): drops every leading c
RECURSIVE TrimLeftMatches(_, _)
TrimLeftMatches(s, c) ==
  IF s # <<>> /\ s[1] = c THEN TrimLeftMatches(Tail(s), c) ELSE s

\* the k-th smallest element of a set of positions
Nth(P, k) == CHOOSE p \in P : Cardinality({q \in P : q < p}) = k - 1

\* str::split(sep): the pieces between the separators, empty pieces kept
Split(s, sep) ==
  LET P == {i \in 1..Len(s) : s[i] = sep}
      n == Cardinality(P)
      from(k) == IF k = 1 THEN 1 ELSE Nth(P, k - 1) + 1
      to(k) == IF k = n + 1 THEN Len(s) ELSE Nth(P, k) - 1
  IN [k \in 1..(n + 1) |-> SubSeq(s, from(k), to(k))]

\* str::split_whitespace: the maximal runs of non-whitespace
SplitWhitespace(s) ==
  LET starts == {i \in 1..Len(s) : ~IsWhitespace(s[i]) /\ (i = 1 \/ IsWhitespace(s[i - 1]))}
      ends == {i \in 1..Len(s) : ~IsWhitespace(s[i]) /\ (i = Len(s) \/ IsWhitespace(s[i + 1]))}
  IN [k \in 1..Cardinality(starts) |-> SubSeq(s, Nth(starts, k), Nth(ends, k))]

RECURSIVE Concat(_)
Concat(ss) == IF ss = <<>> THEN <<>> ELSE Head(ss) \o Concat(Tail(ss))

\* ------------------------------------------------------------------------
\* Decimal numbers
\* ------------------------------------------------------------------------

\* canonical digits: no leading zero except for zero itself
Normalize(d) ==
  LET t == TrimLeftMatches(d, 48) IN IF t = <<>> THEN <<48>> ELSE t

\* a <= b on canonical digit strings
RECURSIVE LexLE(_, _)
LexLE(a, b) ==
  IF a = <<>> THEN TRUE
  ELSE IF Head(a) # Head(b) THEN Head(a) < Head(b)
  ELSE LexLE(Tail(a), Tail(b))

DecLE(a, b) == Len(a) < Len(b) \/ (Len(a) = Len(b) /\ LexLE(a, b))

\* Display of an unsigned integer
RECURSIVE ToDecimal(_)
ToDecimal(n) ==
  IF n < 10 THEN <<48 + n>> ELSE ToDecimal(n \div 10) \o <<48 + (n % 10)>>

\* value of a short digit string
RECURSIVE DecValue(_)
DecValue(d) ==
  IF d = <<>> THEN 0 ELSE 10 * DecValue(SubSeq(d, 1, Len(d) - 1)) + (d[Len(d)] - 48)

U64Max == <<49,56,52,52,54,55,52,52,48,55,51,55,48,57,53,53,49,54,49,53>>

I32Max == <<50,49,52,55,52,56,51,54,52,55>>

I32MinMagnitude == <<50,49,52,55,52,56,51,54,52,56>>

\* str::parse::<u64>: an optional '+', then one or more digits, at most
\* u64::MAX.  The value is its canonical digits.
ParseU64(s) ==
  LET d == IF s # <<>> /\ s[1] = PLUS THEN Tail(s) ELSE s
  IN IF d = <<>> \/ \E i \in 1..Len(d) : ~IsDigit(d[i]) THEN Err(ErrParseInt)
     ELSE IF ~DecLE(Normalize(d), U64Max) THEN Err(ErrParseInt)
     ELSE Ok(Normalize(d))

\* str::parse::<i32>: an optional sign, then one or more digits, within
\* i32.  val is [neg, mag]: the sign and the canonical digits.
ParseI32(s) ==
  LET signed == s # <<>> /\ s[1] \in {PLUS, MINUS}
      neg == s # <<>> /\ s[1] = MINUS
      d == IF signed THEN Tail(s) ELSE s
  IN IF d = <<>> \/ \E i \in 1..Len(d) : ~IsDigit(d[i]) THEN Err(ErrParseInt)
     ELSE IF ~DecLE(Normalize(d), IF neg THEN I32MinMagnitude ELSE I32Max) THEN Err(ErrParseInt)
     ELSE Ok([neg |-> neg, mag |-> Normalize(d)])

\* ------------------------------------------------------------------------
\* HexCodec
\* ------------------------------------------------------------------------

IsHexDigit(c) == IsDigit(c) \/ (c >= 97 /\ c <= 102) \/ (c >= 65 /\ c <= 70)

HexVal(c) == IF IsDigit(c) THEN c - 48 ELSE IF c >= 97 THEN c - 87 ELSE c - 55

LowerHexDigit(n) == IF n < 10 THEN 48 + n ELSE 87 + n

UpperHexDigit(n) == IF n < 10 THEN 48 + n ELSE 55 + n

\* format!("{:02x}", x)
FormatByte02x(x) == <<LowerHexDigit(x \div 16), LowerHexDigit(x % 16)>>

\* ReleaseEntry::sha256_to_string: the fold over the 32 bytes
Sha256ToString(sha256) == Concat([i \in 1..Len(sha256) |-> FormatByte02x(sha256[i])])

\* hex::FromHex::from_hex: fails on a character that is no hex digit and on
\* an odd length, else one byte per two digits
FromHex(s) ==
  IF (\E i \in 1..Len(s) : ~IsHexDigit(s[i])) \/ Len(s) % 2 = 1 THEN Err(ErrFromHex)
  ELSE Ok([i \in 1..(Len(s) \div 2) |-> 16 * HexVal(s[2 * i - 1]) + HexVal(s[2 * i])])

\* ------------------------------------------------------------------------
\* url::percent_encoding
\* ------------------------------------------------------------------------

\* DEFAULT_ENCODE_SET: controls, non-ASCII, and  space " # < > ` ? { }
InDefaultEncodeSet(b) == b < 32 \/ b > 126 \/ b \in {32, 34, 35, 60, 62, 96, 63, 123, 125}

PercentEncodeByte(b) ==
  IF InDefaultEncodeSet(b) THEN <<PCT, UpperHexDigit(b \div 16), UpperHexDigit(b % 16)>> ELSE <<b>>

\* utf8_percent_encode(s, DEFAULT_ENCODE_SET).to_string()
Utf8PercentEncode(s) == Concat([i \in 1..Len(s) |-> PercentEncodeByte(s[i])])

\* percent_decode: %XX with two hex digits becomes the byte, any other '%'
\* stays as it is
RECURSIVE PercentDecode(_)
PercentDecode(s) ==
  IF s = <<>> THEN <<>>
  ELSE IF s[1] = PCT /\ Len(s) >= 3 /\ IsHexDigit(s[2]) /\ IsHexDigit(s[3])
    THEN <<16 * HexVal(s[2]) + HexVal(s[3])>> \o PercentDecode(SubSeq(s, 4, Len(s)))
  ELSE <<s[1]>> \o PercentDecode(Tail(s))

\* decode_utf8 succeeds: one-byte and two-byte sequences (longer sequences
\* are not drawn by the inputs below)
RECURSIVE Utf8Valid(_)
Utf8Valid(b) ==
  IF b = <<>> THEN TRUE
  ELSE IF b[1] < 128 THEN Utf8Valid(Tail(b))
  ELSE IF b[1] >= 194 /\ b[1] <= 223 /\ Len(b) >= 2 /\ b[2] >= 128 /\ b[2] <= 191
    THEN Utf8Valid(SubSeq(b, 3, Len(b)))
  ELSE FALSE

\* ------------------------------------------------------------------------
\* url::Url::parse, as far as parse_name uses it
\* ------------------------------------------------------------------------

IsAsciiAlpha(c) == (c >= 97 /\ c <= 122) \/ (c >= 65 /\ c <= 90)

\* ':' or '|' after one letter
IsWindowsDriveLetter(seg) == Len(seg) = 2 /\ IsAsciiAlpha(seg[1]) /\ seg[2] \in {58, 124}

\* the input up to the query ('?') or the fragment ('#')
BeforeQueryOrFragment(s) ==
  LET P == {i \in 1..Len(s) : s[i] \in {QMARK, HASH}}
  IN IF P = {} THEN s ELSE SubSeq(s, 1, Nth(P, 1) - 1)

\* the path segments: '/' and, in a special scheme, '\' end a segment
PathSegments(s) ==
  LET P == {i \in 1..Len(s) : s[i] \in {SLASH, BSLASH}}
      n == Cardinality(P)
      from(k) == IF k = 1 THEN 1 ELSE Nth(P, k - 1) + 1
      to(k) == IF k = n + 1 THEN Len(s) ELSE Nth(P, k) - 1
  IN [k \in 1..(n + 1) |-> Utf8PercentEncode(SubSeq(s, from(k), to(k)))]

\* "." and "..", plain or with %2e
IsSingleDot(seg) == seg \in {<<46>>, <<37,50,101>>, <<37,50,69>>}

IsDoubleDot(seg) ==
  seg \in {<<46,46>>, <<37,50,101,37,50,101>>, <<37,50,101,37,50,69>>, <<37,50,69,37,50,101>>,
           <<37,50,69,37,50,69>>, <<37,50,101,46>>, <<37,50,69,46>>, <<46,37,50,101>>, <<46,37,50,69>>}

\* Parser::pop_path: drops the last segment, but never a drive letter
PopPath(path) ==
  IF path = <<>> \/ IsWindowsDriveLetter(path[Len(path)]) THEN path
  ELSE SubSeq(path, 1, Len(path) - 1)

\* Parser::parse_path of a file: URL: dot segments are resolved, every other
\* segment is kept, the empty ones too
RECURSIVE ParsePath(_, _)
ParsePath(segs, path) ==
  IF segs = <<>> THEN path
  ELSE LET seg == Head(segs)
           last == Len(segs) = 1
           next == IF IsDoubleDot(seg) THEN PopPath(path) \o (IF last THEN << <<>> >> ELSE <<>>)
                   ELSE IF IsSingleDot(seg) THEN path \o (IF last THEN << <<>> >> ELSE <<>>)
                   ELSE IF path = <<>> /\ IsWindowsDriveLetter(seg)
                     THEN << <<seg[1], 58>> >>
                   ELSE Append(path, seg)
       IN ParsePath(Tail(segs), next)

\* "/" before every segment
RECURSIVE JoinPath(_)
JoinPath(path) == IF path = <<>> THEN <<>> ELSE <<SLASH>> \o Head(path) \o JoinPath(Tail(path))

\* Url::parse(u).path() of a "file://" URL whose host is empty: the path
\* starts at the '/' after the host, and what follows is parsed as
\* its segments.  (The parser also drops control characters at the ends of
\* its input; a token of the inputs below has none.)
FileUrlPath(u) ==
  LET afterHost == SubSeq(u, Len(FilePrefix), Len(u))
  IN JoinPath(ParsePath(PathSegments(BeforeQueryOrFragment(Tail(afterHost))), <<>>))

\* Url::parse of an https: URL succeeds: after the scheme and any number of
\* slashes comes a host, which must not be empty (only hosts of lower-case
\* letters, digits, '.' and '-' are accepted here; no user, port or IPv6)
HttpsUrlParses(u) ==
  LET rest == SubSeq(u, Len(SchemeLiteral) + 1, Len(u))
      nonslash == {i \in 1..Len(rest) : rest[i] \notin {SLASH, BSLASH}}
      start == IF nonslash = {} THEN Len(rest) + 1 ELSE Nth(nonslash, 1)
      stops == {i \in start..Len(rest) : rest[i] \in {SLASH, BSLASH, QMARK, HASH}}
      stop == IF stops = {} THEN Len(rest) + 1 ELSE Nth(stops, 1)
      host == SubSeq(rest, start, stop - 1)
  IN host # <<>> /\ \A i \in 1..Len(host) :
       IsDigit(host[i]) \/ (host[i] >= 97 /\ host[i] <= 122) \/ host[i] \in {DOT, MINUS}

\* ------------------------------------------------------------------------
\* semver::Version
\* ------------------------------------------------------------------------

IsNumeric(s) == s # <<>> /\ \A i \in 1..Len(s) : IsDigit(s[i])

IsIdentifierChar(c) == IsDigit(c) \/ IsAsciiAlpha(c) \/ c = MINUS

\* Version::parse: major.minor.patch, then an optional -pre-release
VersionParse(s) ==
  LET P == {i \in 1..Len(s) : s[i] = MINUS}
      core == IF P = {} THEN s ELSE SubSeq(s, 1, Nth(P, 1) - 1)
      pre == IF P = {} THEN <<>> ELSE SubSeq(s, Nth(P, 1) + 1, Len(s))
      parts == Split(core, DOT)
      ids == Split(pre, DOT)
  IN IF Len(parts) # 3 \/ \E k \in 1..3 : ~IsNumeric(parts[k]) THEN Err(ErrSemVer)
     ELSE IF P # {} /\ \E k \in 1..Len(ids) :
               ids[k] = <<>> \/ \E i \in 1..Len(ids[k]) : ~IsIdentifierChar(ids[k][i])
       THEN Err(ErrSemVer)
     ELSE Ok([major |-> Normalize(parts[1]), minor |-> Normalize(parts[2]),
              patch |-> Normalize(parts[3]), pre |-> pre])

\* Display for Version
VersionToString(v) ==
  v.major \o <<DOT>> \o v.minor \o <<DOT>> \o v.patch
    \o (IF v.pre = <<>> THEN <<>> ELSE <<MINUS>> \o v.pre)

\* Version::parse("0.0.0").unwrap()
VersionZero == [major |-> <<48>>, minor |-> <<48>>, patch |-> <<48>>, pre |-> <<>>]

\* ------------------------------------------------------------------------
\* ReleaseEntry
\* ------------------------------------------------------------------------

\* ReleaseEntry::sha256_to_string is Sha256ToString above.

\* ReleaseEntry::escape_filename
EscapeFilename(e) ==
  IF StartsWith(e.filename_or_url, SchemeLiteral) THEN e.filename_or_url
  ELSE Utf8PercentEncode(e.filename_or_url)

\* ReleaseEntry::to_release_entry
ToReleaseEntry(e) ==
  LET line == Sha256ToString(e.sha256) \o <<SP>> \o EscapeFilename(e) \o <<SP>>
                \o VersionToString(e.version) \o <<SP>> \o e.length \o <<SP>>
                \o (IF e.is_delta THEN DELTA ELSE FULL)
  IN IF e.percentage = 100 THEN line
     ELSE line \o <<SP>> \o ToDecimal(e.percentage) \o <<PCT>>

\* ReleaseEntry::to_releases_file
ToReleasesFile(entries) ==
  LET ret == Concat([i \in 1..Len(entries) |-> ToReleaseEntry(entries[i]) \o <<NL>>])
  IN HEADER \o <<NL>> \o TrimRightMatches(ret, NL)

\* ReleaseEntry::parse_sha256
ParseSha256(sha256) ==
  LET ret == FromHex(sha256)
  IN IF ~ret.ok THEN ret
     ELSE IF Len(ret.val) # DigestLen THEN Err(ErrSha)
     ELSE Ok(ret.val)

\* ReleaseEntry::parse_delta_full
ParseDeltaFull(delta_or_full) ==
  IF delta_or_full = DELTA THEN Ok(TRUE)
  ELSE IF delta_or_full = FULL THEN Ok(FALSE)
  ELSE Err(ErrType)

\* ReleaseEntry::parse_name
ParseName(filename_or_url) ==
  IF StartsWith(filename_or_url, SchemeLiteral)
    THEN IF HttpsUrlParses(filename_or_url) THEN Ok(filename_or_url) ELSE Err(ErrUrl)
  ELSE LET u == FilePrefix \o filename_or_url
           decoded == PercentDecode(FileUrlPath(u))
       IN IF ~Utf8Valid(decoded) THEN Err(ErrUtf8)
          ELSE Ok(TrimLeftMatches(decoded, SLASH))

\* parse_percentage without the upper limit
ParsePercentageUnlimited(percent) ==
  LET n == ParseI32(TrimRightMatches(percent, PCT))
  IN IF ~n.ok THEN n
     ELSE IF n.val.neg /\ n.val.mag # <<48>> THEN Err(ErrPercent)
     ELSE IF Len(n.val.mag) > 3 THEN Err(ErrPercent)
     ELSE Ok(DecValue(n.val.mag))

\* ReleaseEntry::parse_percentage
ParsePercentage(percent) ==
  LET n == ParseI32(TrimRightMatches(percent, PCT))
  IN IF ~n.ok THEN n
     ELSE IF (n.val.neg /\ n.val.mag # <<48>>) \/ (~n.val.neg /\ Len(n.val.mag) > 3)
       THEN Err(ErrPercent)
     ELSE IF DecValue(n.val.mag) > 100 THEN Err(ErrPercent)
     ELSE Ok(DecValue(n.val.mag))

\* parse that takes the first tokens of a longer line
ParseIgnoringExtraTokens(entry) ==
  LET e == SplitWhitespace(entry)
      is_delta == ParseDeltaFull(e[5])
      filename_or_url == ParseName(e[2])
      version == VersionParse(e[3])
      length == ParseU64(e[4])
      percentage == IF Len(e) >= 6 THEN ParsePercentage(e[6]) ELSE Ok(100)
      sha256 == ParseSha256(e[1])
  IN IF Len(e) < 5 THEN Err(ErrEntry)
     ELSE IF ~is_delta.ok THEN is_delta
     ELSE IF ~filename_or_url.ok THEN filename_or_url
     ELSE IF ~version.ok THEN version
     ELSE IF ~length.ok THEN length
     ELSE IF ~percentage.ok THEN percentage
     ELSE IF ~sha256.ok THEN sha256
     ELSE Ok([sha256 |-> sha256.val, filename_or_url |-> filename_or_url.val,
              version |-> version.val, length |-> length.val,
              is_delta |-> is_delta.val, percentage |-> percentage.val])

\* parse that reads the hash before the other fields
ParseHashFirst(entry) ==
  LET e == SplitWhitespace(entry)
      is_delta == ParseDeltaFull(e[5])
      filename_or_url == ParseName(e[2])
      version == VersionParse(e[3])
      length == ParseU64(e[4])
      percentage == IF Len(e) = 6 THEN ParsePercentage(e[6]) ELSE Ok(100)
      sha256 == ParseSha256(e[1])
  IN IF Len(e) \notin {5, 6} THEN Err(ErrEntry)
     ELSE IF ~sha256.ok THEN sha256
     ELSE IF ~is_delta.ok THEN is_delta
     ELSE IF ~filename_or_url.ok THEN filename_or_url
     ELSE IF ~version.ok THEN version
     ELSE IF ~length.ok THEN length
     ELSE IF ~percentage.ok THEN percentage
     ELSE Ok([sha256 |-> sha256.val, filename_or_url |-> filename_or_url.val,
              version |-> version.val, length |-> length.val,
              is_delta |-> is_delta.val, percentage |-> percentage.val])

\* ReleaseEntry::parse: the fields of the struct literal are evaluated in
\* the order they are written, each behind a try!, and the hash comes last
Parse(entry) ==
  LET e == SplitWhitespace(entry)
      is_delta == ParseDeltaFull(e[5])
      filename_or_url == ParseName(e[2])
      version == VersionParse(e[3])
      length == ParseU64(e[4])
      percentage == IF Len(e) = 6 THEN ParsePercentage(e[6]) ELSE Ok(100)
      sha256 == ParseSha256(e[1])
  IN IF Len(e) \notin {5, 6} THEN Err(ErrEntry)
     ELSE IF ~is_delta.ok THEN is_delta
     ELSE IF ~filename_or_url.ok THEN filename_or_url
     ELSE IF ~version.ok THEN version
     ELSE IF ~length.ok THEN length
     ELSE IF ~percentage.ok THEN percentage
     ELSE IF ~sha256.ok THEN sha256
     ELSE Ok([sha256 |-> sha256.val, filename_or_url |-> filename_or_url.val,
              version |-> version.val, length |-> length.val,
              is_delta |-> is_delta.val, percentage |-> percentage.val])

\* the COMMENT regex #.*$ replaced by "": a line has no newline, so the
\* match runs from the first '#' to the end of the line
StripComment(x) ==
  LET P == {i \in 1..Len(x) : x[i] = HASH}
  IN IF P = {} THEN x ELSE SubSeq(x, 1, Nth(P, 1) - 1)

\* the closure collecting the entries in front of the earlier ones
RECURSIVE FilterMapLinesReversed(_, _)
FilterMapLinesReversed(lines, acc) ==
  IF lines = <<>> THEN acc
  ELSE LET r == StripComment(Head(lines))
           parsed == Parse(r)
           next == IF Len(r) = 0 THEN acc
                   ELSE IF ~parsed.ok THEN [acc EXCEPT !.was_error = <<parsed.err>>]
                   ELSE [acc EXCEPT !.r = <<parsed.val>> \o @]
       IN FilterMapLinesReversed(Tail(lines), next)

\* the closure of parse_entries over the lines, in order: acc.r collects
\* the entries, acc.was_error is None or Some(err) and is assigned on every
\* line that fails
RECURSIVE FilterMapLines(_, _)
FilterMapLines(lines, acc) ==
  IF lines = <<>> THEN acc
  ELSE LET r == StripComment(Head(lines))
           parsed == Parse(r)
           next == IF Len(r) = 0 THEN acc
                   ELSE IF ~parsed.ok THEN [acc EXCEPT !.was_error = <<parsed.err>>]
                   ELSE [acc EXCEPT !.r = Append(@, parsed.val)]
       IN FilterMapLines(Tail(lines), next)

\* ReleaseEntry::parse_entries
ParseEntries(content) ==
  LET acc == FilterMapLines(Split(content, NL), [r |-> <<>>, was_error |-> <<>>])
  IN IF acc.was_error # <<>> THEN Err(acc.was_error[1]) ELSE Ok(acc.r)

\* sha2::Sha256 over the bytes fed to it: a stand-in that is a function of
\* those bytes and yields 32 bytes
RECURSIVE ByteSum(_)
ByteSum(b) == IF b = <<>> THEN 0 ELSE (Len(b) * Head(b) + ByteSum(Tail(b))) % 256

Sha256(bytes) == [i \in 1..DigestLen |-> (ByteSum(bytes) + 7 * i + 31 * Len(bytes)) % 256]

\* Path::file_name: what follows the last '/'
FileName(path) ==
  LET P == {i \in 1..Len(path) : path[i] = SLASH}
  IN IF P = {} THEN path ELSE SubSeq(path, Nth(P, Cardinality(P)) + 1, Len(path))

\* ------------------------------------------------------------------------
\* Inputs
\* ------------------------------------------------------------------------

\* "e4548fba3f902e63e3fff36db7cbbd1837493e21c51f0751e51ee1483ddd0f35"
ShaExample == <<101,52,53,52,56,102,98,97,51,102,57,48,50,101,54,51,101,51,102,102,102,51,54,100,98,55,99,98,98,100,49,56,51,55,52,57,51,101,50,49,99,53,49,102,48,55,53,49,101,53,49,101,101,49,52,56,51,100,100,100,48,102,51,53>>

\* the same with upper-case digits, the same less its first two digits
\* (62 digits), and "48Z"
ShaUpper == <<69,52,53,52,56,70,66,65,51,70,57,48,50,69,54,51,69,51,70,70,70,51,54,68,66,55,67,66,66,68,49,56,51,55,52,57,51,69,50,49,67,53,49,70,48,55,53,49,69,53,49,69,69,49,52,56,51,68,68,68,48,70,51,53>>

ShaShort == SubSeq(ShaExample, 3, 64)

ShaTokens == {ShaExample, ShaUpper, ShaShort, <<52,56,90>>}

\* a / . % 2 0
NameAlphabet == {97, SLASH, DOT, PCT, 50, 48}

\* "myproject.7z"
NameExample == <<109,121,112,114,111,106,101,99,116,46,55,122>>

\* "my%20project.7z"
NameEncoded == <<109,121,37,50,48,112,114,111,106,101,99,116,46,55,122>>

\* "https://h/a"
NameUrl == <<104,116,116,112,115,58,47,47,104,47,97>>

\* "%FF" (not UTF-8 once decoded) and "https:" (a URL without a host)
NameNotUtf8 == <<37,70,70>>

\* "%2550", which decodes to "%50"
NameDoublyEncoded == <<37,50,53,53,48>>

\* "a#a", "a?a", "/a", "%2Fa", "a/../a"
NameExamples ==
  {NameExample, NameEncoded, NameUrl, NameNotUtf8, SchemeLiteral, NameDoublyEncoded,
   <<97,35,97>>, <<97,63,97>>, <<47,97>>, <<37,50,70,97>>, <<97,47,46,46,47,97>>}

\* every token over the alphabet up to MaxNameLen, and the examples
NameTokens == UNION {[1..n -> NameAlphabet] : n \in 1..MaxNameLen} \cup NameExamples

\* "1.2.3", "2.0.0-beta.1", and "1.x.3"
VersionExample == <<49,46,50,46,51>>

VersionTokens == {VersionExample, <<50,46,48,46,48,45,98,101,116,97,46,49>>, <<49,46,120,46,51>>}

\* "12345", "12x", "-1", and 2^64
SizeExample == <<49,50,51,52,53>>

SizeTokens == {SizeExample, <<49,50,120>>, <<45,49>>, <<49,56,52,52,54,55,52,52,48,55,51,55,48,57,53,53,49,54,49,54>>}

\* "foobar", "Full"
TypeTokens == {FULL, DELTA, <<102,111,111,98,97,114>>, <<70,117,108,108>>}

\* "45%" "5%" "0%" "100%" "145%" "-145%" "x%" "45" "45%%" "+5%" "%"
Percent45 == <<52,53,37>>

Percent45NoSuffix == <<52,53>>

PercentTokens ==
  {Percent45, <<53,37>>, <<48,37>>, <<49,48,48,37>>, <<49,52,53,37>>, <<45,49,52,53,37>>, <<120,37>>,
   Percent45NoSuffix, <<52,53,37,37>>, <<43,53,37>>, <<37>>}

\* the separators between the tokens of a line: " " and " \t"
Separators == {<<SP>>, <<SP, 9>>}

\* tokens joined by a separator
RECURSIVE JoinTokens(_, _)
JoinTokens(tokens, sep) ==
  IF tokens = <<>> THEN <<>>
  ELSE IF Len(tokens) = 1 THEN Head(tokens)
  ELSE Head(tokens) \o sep \o JoinTokens(Tail(tokens), sep)

\* the token sequences a line is made of:
\*  - every name token in an otherwise well-formed line of 5 and of 6 tokens,
\*  - every combination of well-formed and malformed fields,
\*  - lines of 0 to 7 tokens
LinesByName ==
  {<<ShaExample, n, VersionExample, SizeExample, FULL>> : n \in NameTokens}
    \cup {<<ShaExample, n, VersionExample, SizeExample, DELTA, Percent45>> : n \in NameTokens}

LinesByField ==
  LET five == {<<s, n, v, z, t>> :
                 s \in {ShaExample, ShaShort, <<52,56,90>>}, n \in {NameExample, NameNotUtf8},
                 v \in {VersionExample, <<49,46,120,46,51>>},
                 z \in {SizeExample, <<49,50,120>>, <<49,56,52,52,54,55,52,52,48,55,51,55,48,57,53,53,49,54,49,54>>},
                 t \in {FULL, DELTA, <<102,111,111,98,97,114>>}}
      six == {f \in five : /\ f[1] \in {ShaExample, ShaShort}
                           /\ f[2] = NameExample
                           /\ f[3] = VersionExample
                           /\ f[4] \in {SizeExample, <<49,50,120>>}
                           /\ f[5] \in {DELTA, <<102,111,111,98,97,114>>}}
  IN five \cup {Append(f, p) : f \in six, p \in PercentTokens}
      \cup {<<s, NameExample, v, z, t>> : s \in ShaTokens, v \in VersionTokens,
                                          z \in {SizeExample, <<45,49>>}, t \in {FULL, <<70,117,108,108>>}}

LinesByCount ==
  {[i \in 1..k |-> tok] : k \in 0..7, tok \in {ShaExample, FULL}}
    \cup {<<ShaExample, NameExample, VersionExample, SizeExample>>,
          <<ShaExample, NameExample, VersionExample, SizeExample, FULL, Percent45, Percent45>>}

LineTokens == LinesByName \cup LinesByField \cup LinesByCount

\* the lines a document is made of, each with what it is:
\*   entry            a line parse accepts, without '#'
\*   entry_comment    such a line followed by a comment (entry is the line
\*                    before the comment)
\*   entry_hash       a line parse accepts whose name token holds a '#'
\*   comment          a line that starts with '#'
\*   empty            a line without characters
\*   blank            a line of whitespace only
\*   indented_comment whitespace, then a comment
\*   invalid          a line parse rejects
EntryLine1 == JoinTokens(<<ShaExample, NameExample, VersionExample, SizeExample, FULL>>, <<SP>>)

EntryLine2 == JoinTokens(<<ShaUpper, NameEncoded, VersionExample, SizeExample, DELTA, Percent45>>, <<SP>>)

EntryLineSlash == JoinTokens(<<ShaExample, <<SLASH>>, VersionExample, SizeExample, FULL>>, <<SP>>)

EntryLineHash == JoinTokens(<<ShaExample, <<97, HASH, 97>>, VersionExample, SizeExample, FULL>>, <<SP>>)

\* " # c"
CommentTail == <<SP, HASH, SP, 99>>

DocLines ==
  {[kind |-> "entry", text |-> EntryLine1, entry |-> EntryLine1],
   [kind |-> "entry", text |-> EntryLine2, entry |-> EntryLine2],
   [kind |-> "entry", text |-> EntryLineSlash, entry |-> EntryLineSlash],
   [kind |-> "entry_comment", text |-> EntryLine1 \o CommentTail, entry |-> EntryLine1],
   [kind |-> "entry_hash", text |-> EntryLineHash, entry |-> EntryLineHash],
   [kind |-> "comment", text |-> HEADER, entry |-> <<>>],
   [kind |-> "empty", text |-> <<>>, entry |-> <<>>],
   [kind |-> "blank", text |-> <<SP, SP>>, entry |-> <<>>],
   [kind |-> "indented_comment", text |-> CommentTail, entry |-> <<>>],
   [kind |-> "invalid", text |-> JoinTokens(<<ShaExample, NameExample, VersionExample, SizeExample, <<102,111,111,98,97,114>>>>, <<SP>>), entry |-> <<>>],
   [kind |-> "invalid", text |-> JoinTokens(<<ShaExample, NameExample, VersionExample, SizeExample>>, <<SP>>), entry |-> <<>>],
   [kind |-> "invalid", text |-> JoinTokens(<<ShaShort, NameExample, VersionExample, SizeExample, FULL>>, <<SP>>), entry |-> <<>>]}

Documents == UNION {[1..n -> DocLines] : n \in 0..MaxLines}

\* the lines joined by "\n"
RECURSIVE JoinLines(_)
JoinLines(lines) ==
  IF lines = <<>> THEN <<>>
  ELSE IF Len(lines) = 1 THEN Head(lines).text
  ELSE Head(lines).text \o <<NL>> \o JoinLines(Tail(lines))

\* the files on disk: up to MaxFileLen bytes of 'a' and 'b'
FileContents == UNION {[1..n -> {97, 98}] : n \in 0..MaxFileLen}

\* "d/LICENSE"
PathExample == <<100,47,76,73,67,69,78,83,69>>

\* ------------------------------------------------------------------------
\* State
\* ------------------------------------------------------------------------

VARIABLES
  api,       \* the constructor under way: "parse", "parse_entries", "from_file"
  pc,        \* how far the caller has come
  given,     \* what the input was made of: the tokens of the line or the lines of the document
  input,     \* the text handed to parse / parse_entries, or the path handed to from_file
  result,    \* the Result of the constructor
  text,      \* to_release_entry / to_releases_file of result
  result2,   \* the Result of parsing text
  text2,     \* to_release_entry / to_releases_file of result2
  disk,      \* the file the path names: [exists, bytes]
  opened,    \* the bytes of the file behind the open handle
  linked,    \* the path still names the file behind the open handle
  offset,    \* the read position of the handle
  hasher,    \* the bytes fed to the Sha256 so far
  envSteps   \* changes made to the file by other processes

vars == <<api, pc, given, input, result, text, result2, text2, disk, opened, linked, offset, hasher, envSteps>>

fileVars == <<disk, opened, linked, offset, hasher, envSteps>>

NotCalled == Err("not called")

NoFile == [exists |-> FALSE, bytes |-> <<>>]

InitResults ==
  /\ pc = "input"
  /\ result = NotCalled
  /\ text = <<>>
  /\ result2 = NotCalled
  /\ text2 = <<>>
  /\ opened = <<>>
  /\ linked = FALSE
  /\ offset = 0
  /\ hasher = <<>>
  /\ envSteps = 0

InitParse ==
  /\ api = "parse"
  /\ given \in LineTokens
  /\ \E sep \in Separators :
       /\ sep # <<SP>> => given \in LinesByCount
       /\ input = JoinTokens(given, sep)
  /\ disk = NoFile
  /\ InitResults

InitParseEntries ==
  /\ api = "parse_entries"
  /\ given \in Documents
  /\ input = JoinLines(given)
  /\ disk = NoFile
  /\ InitResults

InitFromFile ==
  /\ api = "from_file"
  /\ given = <<>>
  /\ input = PathExample
  /\ disk \in {NoFile} \cup {[exists |-> TRUE, bytes |-> b] : b \in FileContents}
  /\ InitResults

Init == InitParse \/ InitParseEntries \/ InitFromFile

\* ------------------------------------------------------------------------
\* Calls
\* ------------------------------------------------------------------------

\* ReleaseEntry::parse(input)
DoParse ==
  /\ api = "parse" /\ pc = "input"
  /\ result' = Parse(input)
  /\ pc' = "result"
  /\ UNCHANGED <<api, given, input, text, result2, text2, fileVars>>

\* to_release_entry of the entry parse or from_file returned
DoToReleaseEntry ==
  /\ api \in {"parse", "from_file"} /\ pc = "result" /\ result.ok
  /\ text' = ToReleaseEntry(result.val)
  /\ pc' = "text"
  /\ UNCHANGED <<api, given, input, result, result2, text2, fileVars>>

\* ReleaseEntry::parse of the formatted line
DoParseAgain ==
  /\ api \in {"parse", "from_file"} /\ pc = "text"
  /\ result2' = Parse(text)
  /\ pc' = "result2"
  /\ UNCHANGED <<api, given, input, result, text, text2, fileVars>>

\* to_release_entry of the entry parsed from the formatted line
DoToReleaseEntryAgain ==
  /\ api \in {"parse", "from_file"} /\ pc = "result2" /\ result2.ok
  /\ text2' = ToReleaseEntry(result2.val)
  /\ pc' = "done"
  /\ UNCHANGED <<api, given, input, result, text, result2, fileVars>>

\* ReleaseEntry::parse_entries(input)
DoParseEntries ==
  /\ api = "parse_entries" /\ pc = "input"
  /\ result' = ParseEntries(input)
  /\ pc' = "result"
  /\ UNCHANGED <<api, given, input, text, result2, text2, fileVars>>

\* ReleaseEntry::to_releases_file of the entries parse_entries returned
DoToReleasesFile ==
  /\ api = "parse_entries" /\ pc = "result" /\ result.ok
  /\ text' = ToReleasesFile(result.val)
  /\ pc' = "text"
  /\ UNCHANGED <<api, given, input, result, result2, text2, fileVars>>

\* ReleaseEntry::parse_entries of the formatted document
DoParseEntriesAgain ==
  /\ api = "parse_entries" /\ pc = "text"
  /\ result2' = ParseEntries(text)
  /\ pc' = "result2"
  /\ UNCHANGED <<api, given, input, result, text, text2, fileVars>>

\* to_releases_file of the entries parsed from the formatted document
DoToReleasesFileAgain ==
  /\ api = "parse_entries" /\ pc = "result2" /\ result2.ok
  /\ text2' = ToReleasesFile(result2.val)
  /\ pc' = "done"
  /\ UNCHANGED <<api, given, input, result, text, result2, fileVars>>

\* from_file, File::open: fails when the path names no file
FromFileOpen ==
  /\ api = "from_file" /\ pc = "input"
  /\ IF disk.exists
       THEN /\ opened' = disk.bytes
            /\ linked' = TRUE
            /\ pc' = "reading"
            /\ result' = result
       ELSE /\ result' = Err(ErrIo)
            /\ pc' = "result"
            /\ UNCHANGED <<opened, linked>>
  /\ UNCHANGED <<api, given, input, text, result2, text2, disk, offset, hasher, envSteps>>

\* from_file, one turn of the loop: buf.read returns between 1 and
\* ChunkSize of the bytes left, which go into the hash, or 0 at the end of
\* the file, which ends the loop and closes the file
FromFileRead ==
  /\ api = "from_file" /\ pc = "reading"
  /\ IF offset < Len(opened)
       THEN \E count \in 1..Min(Len(opened) - offset, ChunkSize) :
              /\ hasher' = hasher \o SubSeq(opened, offset + 1, offset + count)
              /\ offset' = offset + count
              /\ pc' = pc
       ELSE /\ pc' = "hashed"
            /\ UNCHANGED <<hasher, offset>>
  /\ UNCHANGED <<api, given, input, result, text, result2, text2, disk, opened, linked, envSteps>>

\* from_file, a turn of the loop in which buf.read fails: try! returns the
\* error and the file is closed
FromFileReadError ==
  /\ api = "from_file" /\ pc = "reading"
  /\ result' = Err(ErrIo)
  /\ pc' = "result"
  /\ UNCHANGED <<api, given, input, text, result2, text2, fileVars>>

\* from_file after the loop: fs::metadata(path) gives the length, the path
\* gives the name, the hash is finalized
FromFileFinish ==
  /\ api = "from_file" /\ pc = "hashed"
  /\ result' = IF ~disk.exists THEN Err(ErrIo)
               ELSE Ok([sha256 |-> Sha256(hasher),
                        filename_or_url |-> FileName(input),
                        length |-> ToDecimal(Len(disk.bytes)),
                        version |-> VersionZero,
                        is_delta |-> FALSE,
                        percentage |-> 100])
  /\ pc' = "result"
  /\ UNCHANGED <<api, given, input, text, result2, text2, fileVars>>

\* ------------------------------------------------------------------------
\* Other processes, while from_file runs
\* ------------------------------------------------------------------------

InFromFile == api = "from_file" /\ pc \in {"input", "reading", "hashed"} /\ envSteps < MaxEnvSteps

\* a process appends a byte to the file
EnvAppend ==
  /\ InFromFile /\ disk.exists /\ Len(disk.bytes) < MaxFileLen
  /\ \E b \in {97, 98} :
       /\ disk' = [disk EXCEPT !.bytes = Append(@, b)]
       /\ opened' = IF linked THEN Append(opened, b) ELSE opened
  /\ envSteps' = envSteps + 1
  /\ UNCHANGED <<api, pc, given, input, result, text, result2, text2, linked, offset, hasher>>

\* a process truncates the file
EnvTruncate ==
  /\ InFromFile /\ disk.exists
  /\ \E n \in 0..(Len(disk.bytes) - 1) :
       /\ disk' = [disk EXCEPT !.bytes = SubSeq(@, 1, n)]
       /\ opened' = IF linked THEN SubSeq(opened, 1, n) ELSE opened
  /\ envSteps' = envSteps + 1
  /\ UNCHANGED <<api, pc, given, input, result, text, result2, text2, linked, offset, hasher>>

\* a process renames another file over the path; an open handle keeps the
\* old file
EnvReplace ==
  /\ InFromFile
  /\ \E b \in FileContents : disk' = [exists |-> TRUE, bytes |-> b]
  /\ linked' = FALSE
  /\ envSteps' = envSteps + 1
  /\ UNCHANGED <<api, pc, given, input, result, text, result2, text2, opened, offset, hasher>>

\* a process removes the file; an open handle keeps it
EnvRemove ==
  /\ InFromFile /\ disk.exists
  /\ disk' = NoFile
  /\ linked' = FALSE
  /\ envSteps' = envSteps + 1
  /\ UNCHANGED <<api, pc, given, input, result, text, result2, text2, opened, offset, hasher>>

Next ==
  \/ DoParse
  \/ DoToReleaseEntry
  \/ DoParseAgain
  \/ DoToReleaseEntryAgain
  \/ DoParseEntries
  \/ DoToReleasesFile
  \/ DoParseEntriesAgain
  \/ DoToReleasesFileAgain
  \/ FromFileOpen
  \/ FromFileRead
  \/ FromFileReadError
  \/ FromFileFinish
  \/ EnvAppend
  \/ EnvTruncate
  \/ EnvReplace
  \/ EnvRemove

Spec == Init /\ [][Next]_vars

\* ------------------------------------------------------------------------
\* Properties
\* ------------------------------------------------------------------------

Returned == pc \notin {"input", "reading", "hashed"}

EndsWith(t, suffix) == Len(t) >= Len(suffix) /\ SubSeq(t, Len(t) - Len(suffix) + 1, Len(t)) = suffix

\* the lines of the document that parse_entries hands to parse, and those
\* of them that parse rejects
HandedToParse(i) == StripComment(given[i].text) # <<>>

FailingLines == {i \in 1..Len(given) : HandedToParse(i) /\ ~Parse(StripComment(given[i].text)).ok}

\* C1: when a line of the document fails, parse_entries returns an error
\* and no entries, and the error is that of the first failing line.
C1_FirstErrorReturned ==
  (api = "parse_entries" /\ Returned /\ FailingLines # {}) =>
    /\ ~result.ok
    /\ result.err = Parse(StripComment(given[Nth(FailingLines, 1)].text)).err

\* C2: the line formatted from a parsed entry parses again, and formats to
\* the same line.
C2_LineRoundTrip ==
  (api = "parse" /\ pc \in {"result2", "done"}) =>
    /\ result2.ok
    /\ pc = "done" => text2 = text

\* C3: the document formatted from a sequence of entries parses again, and
\* formats to the same document.
C3_DocumentRoundTrip ==
  (api = "parse_entries" /\ pc \in {"result2", "done"}) =>
    /\ result2.ok
    /\ pc = "done" => text2 = text

\* integer in [0,100], read independently of parse_percentage
IsPercentNumber(t) ==
  LET n == ParseI32(t)
  IN n.ok /\ Len(n.val.mag) <= 3 /\ DecValue(n.val.mag) <= 100 /\ (n.val.neg => n.val.mag = <<48>>)

\* C4: a line of 6 tokens is accepted only if its sixth token is an integer
\* in [0,100] followed by '%'.
C4_PercentNeedsSuffix ==
  (api = "parse" /\ Returned /\ Len(given) = 6 /\ result.ok) =>
    /\ given[6][Len(given[6])] = PCT
    /\ IsPercentNumber(SubSeq(given[6], 1, Len(given[6]) - 1))

\* C5: a line whose number of tokens is neither 5 nor 6 is rejected with
\* "Invalid Release Entry string", whatever the tokens are.
C5_TokenCount ==
  (api = "parse" /\ Returned /\ Len(given) \notin {5, 6}) => result = Err(ErrEntry)

C5_Witness ==
  api = "parse" /\ pc = "result" /\ Len(given) = 7 /\ given[5] = FULL /\ result = Err(ErrEntry)

\* the result of each field's own parser, in the order package type, name,
\* version, length, percentage, hash
FieldResults ==
  <<ParseDeltaFull(given[5]), ParseName(given[2]), VersionParse(given[3]), ParseU64(given[4]),
    IF Len(given) = 6 THEN ParsePercentage(given[6]) ELSE Ok(100), ParseSha256(given[1])>>

MalformedFields == {k \in 1..6 : ~FieldResults[k].ok}

\* C6: of several malformed fields, parse reports the error of the earliest
\* in the order package type, name, version, length, percentage, hash; a
\* bad package type wins over a bad hash.
C6_ValidationOrder ==
  (api = "parse" /\ Returned /\ Len(given) \in {5, 6} /\ MalformedFields # {}) =>
    /\ result = FieldResults[Nth(MalformedFields, 1)]
    /\ (~FieldResults[1].ok /\ ~FieldResults[6].ok) => result = Err(ErrType)

C6_Witness ==
  /\ api = "parse" /\ pc = "result" /\ Len(given) = 6
  /\ {1, 4, 6} \subseteq MalformedFields
  /\ result = Err(ErrType)

\* the entries parse gives for the entry lines, in the order of the lines
RECURSIVE EntriesOf(_)
EntriesOf(lines) ==
  IF lines = <<>> THEN <<>>
  ELSE IF Head(lines).kind \in {"entry", "entry_comment", "entry_hash"}
    THEN <<Parse(Head(lines).entry).val>> \o EntriesOf(Tail(lines))
  ELSE EntriesOf(Tail(lines))

KindsOf(lines) == {lines[i].kind : i \in 1..Len(lines)}

\* C7 as stated: a document of valid entry lines (with or without a comment
\* after them), comment lines (with or without whitespace before the '#'),
\* and blank or whitespace-only lines parses to the entries of its entry
\* lines, in order.
C7_Original ==
  (api = "parse_entries" /\ Returned
     /\ KindsOf(given) \subseteq {"entry", "entry_comment", "entry_hash", "comment",
                                  "indented_comment", "empty", "blank"}) =>
    result = Ok(EntriesOf(given))

\* C7 amended: a document of valid entry lines without '#' (with or without
\* a comment after them), lines that start with '#', and lines without any
\* character parses to the entries of its entry lines, in order.
C7_CommentsAndEmptyLines ==
  (api = "parse_entries" /\ Returned
     /\ KindsOf(given) \subseteq {"entry", "entry_comment", "comment", "empty"}) =>
    result = Ok(EntriesOf(given))

C7_Witness ==
  /\ api = "parse_entries" /\ pc = "result" /\ Len(given) = 2
  /\ given[1].kind = "entry_comment" /\ given[2].text = EntryLine2
  /\ result.ok /\ Len(result.val) = 2
  /\ result.val[1].is_delta = FALSE /\ result.val[2].is_delta = TRUE

\* C8: the length of the entry from_file returns is the number of bytes it
\* read and hashed, whatever other processes do to the file meanwhile.
C8_LengthIsBytesHashed ==
  (api = "from_file" /\ Returned /\ result.ok) => result.val.length = ToDecimal(Len(hasher))

\* C9: a name that is no https: URL decodes to its percent-decoded path
\* less exactly one leading '/', so a '/' at the start of the token stays.
C9_OneSeparatorStripped ==
  (api = "parse" /\ Returned /\ result.ok /\ ~StartsWith(given[2], SchemeLiteral)) =>
    result.val.filename_or_url = Tail(PercentDecode(FileUrlPath(FilePrefix \o given[2])))

\* the entries a call returned
EntriesReturned ==
  IF ~Returned \/ ~result.ok THEN {}
  ELSE IF api = "parse_entries" THEN {result.val[i] : i \in 1..Len(result.val)}
  ELSE {result.val}

\* C10: a returned entry has a percentage in [0,100]; it is 100 for a line
\* of 5 tokens and for from_file; to_release_entry ends the line with
\* " <percentage>%" exactly when the percentage is not 100.
C10_Percentage ==
  /\ \A e \in EntriesReturned : e.percentage \in 0..100
  /\ \A e \in EntriesReturned :
       (api = "from_file" \/ (api = "parse" /\ Len(given) = 5)) => e.percentage = 100
  /\ (api \in {"parse", "from_file"} /\ pc \in {"text", "result2", "done"}) =>
       /\ EndsWith(text, <<SP>> \o ToDecimal(result.val.percentage) \o <<PCT>>)
            <=> result.val.percentage # 100
       /\ text[Len(text)] = PCT <=> result.val.percentage # 100

C10_Witness ==
  /\ api = "parse" /\ pc = "text" /\ Len(given) = 6
  /\ result.val.percentage = 5
  /\ EndsWith(text, <<SP, 53, PCT>>)

====
